---- MODULE Spec2Model ----
(***************************************************************************)
(* State-machine model of the FramI2C driver (src/src/FramI2C.h,           *)
(* src/src/FramI2C.cpp): one FramI2C instance, the heap its type buffer    *)
(* lives on, the Wire transport it drives and the FRAM devices on the bus. *)
(* Every public method is one action; the transport's answers and the      *)
(* caller's arguments are the actions' inputs.                             *)
(***************************************************************************)
EXTENDS Integers, Sequences, FiniteSets, TLC

VARIABLES
    density_,            \* uint16_t  FramI2C.h:154
    i2cAddress_,         \* uint8_t   FramI2C.h:155
    memorySize_,         \* size_t    FramI2C.h:156
    pageSize_,           \* size_t    FramI2C.h:157
    pageCount_,          \* uint8_t   FramI2C.h:158
    addressBytesCount_,  \* uint8_t   FramI2C.h:159
    typebufferSize_,     \* size_t    FramI2C.h:160
    typebuffer_,         \* uint8_t*  FramI2C.h:161 : 0 is nullptr, n > 0 is heap block n
    initialized_,        \* bool      FramI2C.h:163
    deviceIdChecked_,    \* bool      FramI2C.h:164
    deviceIdSupported_,  \* bool      FramI2C.h:165
    manufacturerId_,     \* uint16_t  FramI2C.h:166
    productId_,          \* uint16_t  FramI2C.h:167
    heap,                \* the blocks malloc has handed out: size, and whether released
    alive,               \* "live", "destroyed" (destructor ran) or "aborted" (heap corruption)
    fram,                \* bytes stored in the FRAM devices: <<bus address, memory address>> -> byte
    calls,               \* number of readBytes/writeBytes/fill calls made so far
    last,                \* the most recent call: its arguments, result and transport log
    prev,                \* the call before it, if that was a writeBytes or fill that succeeded
    loop                 \* the transfer loop a call is in, when its iterations are followed one by one

geometry == <<density_, i2cAddress_, memorySize_, pageSize_, pageCount_, addressBytesCount_>>
buffer   == <<typebufferSize_, typebuffer_>>
identity == <<deviceIdChecked_, deviceIdSupported_, manufacturerId_, productId_>>
fields   == <<geometry, buffer, initialized_, identity>>
vars     == <<fields, heap, alive, fram, calls, last, prev, loop>>

----------------------------------------------------------------------------
(* Integer widths.  uint8_t and uint16_t values are held as naturals and    *)
(* reduced after every operation.  size_t is 32 bits wide (ESP8266, ESP32,  *)
(* ARM; 0x10000 fits a size_t, FramI2C.cpp:523), which is wider than the    *)
(* integers TLC computes with, so a size_t value v is held as v when        *)
(* v < 2^31 and as v - 2^32 when v >= 2^31: the same 32 bits read as a      *)
(* signed number.  In that form + and - are the wrapping size_t operations  *)
(* and only the comparison needs care.                                      *)

SizeMax == 0 - 1                          \* SIZE_MAX = 2^32 - 1

sizeAdd(a, b) == a + b
sizeSub(a, b) == a - b
sizeGt(a, b) == IF (a < 0) = (b < 0) THEN a > b ELSE a < 0

U8(x) == x % 256
U16(x) == x % 65536

----------------------------------------------------------------------------
(* enum TwiResultCode, FramI2C.h:24-31 *)
TwiSuccess == 0
TwiBufferOverflow == 1
TwiAddressNack == 2
TwiDataNack == 3
TwiLineBusy == 4

(* enum class ResultCode, FramI2C.h:36-55 *)
Success == 0
I2CBufferOverflowError == 1
I2CAddressNackError == 2
I2CDataNackError == 3
I2CLineBusyError == 4
I2CReadError == 192
I2CWriteError == 193
I2CUnknownTwiResultCode == 194
NullPtrError == 224
NotInitializedError == 225
AllreadyInitializedError == 226
UnsupportedDensityError == 227
InvalidPageError == 228
PageSizeRangeError == 229
BufferAllocationFailedError == 230
BufferOverflowError == 231
Uninitialized == 255

I2CBufferLength == 32
ReservedSlaveAddress == 124
DeviceIdSize == 3

----------------------------------------------------------------------------
(* Geometry table, FramI2C.cpp:490-543 *)

SupportedDensitiesInKiloBits == <<4, 16, 64, 128, 256, 512, 1024, 0>>

RECURSIVE densityScan(_, _)
densityScan(densityInKiloBits, i) ==
    IF SupportedDensitiesInKiloBits[i] = 0 THEN FALSE
    ELSE IF densityInKiloBits = SupportedDensitiesInKiloBits[i] THEN TRUE
    ELSE densityScan(densityInKiloBits, i + 1)

(* As isDensitySupported, with the scan ending one entry early. *)
isDensitySupportedButLast(densityInKiloBits) ==
    densityInKiloBits # 1024 /\ densityScan(densityInKiloBits, 1)

(* FramI2C::isDensitySupported, FramI2C.cpp:529-543 *)
isDensitySupported(densityInKiloBits) == densityScan(densityInKiloBits, 1)

densityToMemorySize(density) ==
    IF ~isDensitySupported(density) THEN 0
    ELSE (density * 1024) \div 8

(* As densityToPageSize, with the first boundary at 64 instead of 16. *)
densityToPageSizeSmallUpTo64(density) ==
    IF ~isDensitySupported(density) THEN 0
    ELSE IF density <= 64 THEN 256
    ELSE IF density <= 256 THEN densityToMemorySize(density)
    ELSE 65536

densityToPageSize(density) ==
    IF ~isDensitySupported(density) THEN 0
    ELSE IF density <= 16 THEN 256
    ELSE IF density <= 256 THEN densityToMemorySize(density)
    ELSE 65536

----------------------------------------------------------------------------
(* The record of a call: what was asked, what came back, and every call the *)
(* driver made on the Wire transport while it ran.                          *)

Call(op, arg, result, value, flag, log, data) ==
    [op |-> op, arg |-> arg, result |-> result, value |-> value,
     flag |-> flag, log |-> log, data |-> data]

NoCall == Call("none", <<>>, Uninitialized, 0, FALSE, <<>>, <<>>)

(* One call on the Wire object. *)
Ev(call, addr, bytes, count, ret) ==
    [call |-> call, addr |-> addr, bytes |-> bytes, count |-> count, ret |-> ret]

----------------------------------------------------------------------------
(* The call that becomes prev when the next call is made. *)
storedCall(c) ==
    IF c.op \in {"writeBytes", "fill"} /\ c.result = Success THEN c ELSE NoCall

----------------------------------------------------------------------------
(* Heap: malloc hands out a fresh block; free and delete[] release it.      *)
(* Releasing a block that is already released is undefined behaviour: the   *)
(* heap is corrupted from then on, and the allocator may carry on or abort  *)
(* the program.  A fresh block holds indeterminate bytes; the driver only   *)
(* ever stores into the block before it loads from it, so the bytes malloc  *)
(* leaves there are never observed and one filler value stands for them.    *)

Block(size) ==
    [size |-> size, state |-> "allocated", bytes |-> [i \in 1..size |-> 205]]

Released(h, p) ==
    [h EXCEPT ![p].state = IF @ = "allocated" THEN "released" ELSE "released twice"]

AfterRelease(h, p) ==
    IF h[p].state = "allocated" THEN {"live"} ELSE {"live", "aborted"}

----------------------------------------------------------------------------
(* FramI2C::FramI2C and the in-class initializers, FramI2C.h:154-167 *)

Constructed ==
    /\ density_ = 0
    /\ i2cAddress_ = 0
    /\ memorySize_ = 0
    /\ pageSize_ = 0
    /\ pageCount_ = 0
    /\ addressBytesCount_ = 0
    /\ typebufferSize_ = 0
    /\ typebuffer_ = 0
    /\ initialized_ = FALSE
    /\ deviceIdChecked_ = FALSE
    /\ deviceIdSupported_ = FALSE
    /\ manufacturerId_ = 0
    /\ productId_ = 0

(* No call is inside a transfer loop. *)
Idle == [op |-> "none"]

Init ==
    /\ Constructed
    /\ heap = <<>>
    /\ alive = "live"
    /\ fram = [c \in {} |-> 0]
    /\ calls = 0
    /\ last = NoCall
    /\ prev = NoCall
    /\ loop = Idle

----------------------------------------------------------------------------
(* FramI2C::begin, FramI2C.cpp:32-86.  mallocOk is what malloc answers.     *)

MaxAllocs == 2

(* As sameParameters, without the comparison of the type buffer size. *)
sameParametersButSize(densityInKiloBits, i2cAddress, typebufferSize) ==
    /\ densityInKiloBits = density_
    /\ i2cAddress = i2cAddress_

(* The comparison of a repeated begin, FramI2C.cpp:41 *)
sameParameters(densityInKiloBits, i2cAddress, typebufferSize) ==
    /\ densityInKiloBits = density_
    /\ i2cAddress = i2cAddress_
    /\ typebufferSize = typebufferSize_

begin(densityInKiloBits, i2cAddress, typebufferSize, mallocOk) ==
    /\ alive = "live"
    /\ IF initialized_
       THEN /\ last' = Call("begin", <<densityInKiloBits, i2cAddress, typebufferSize>>,
                            IF sameParameters(densityInKiloBits, i2cAddress, typebufferSize)
                            THEN Success ELSE AllreadyInitializedError,
                            0, FALSE, <<>>, <<>>)
            /\ UNCHANGED <<fields, heap>>
       ELSE IF ~isDensitySupported(densityInKiloBits)
       THEN /\ last' = Call("begin", <<densityInKiloBits, i2cAddress, typebufferSize>>,
                            UnsupportedDensityError, 0, FALSE, <<>>, <<>>)
            /\ UNCHANGED <<fields, heap>>
       ELSE /\ pageSize_' = densityToPageSize(densityInKiloBits)
            /\ IF sizeGt(typebufferSize, pageSize_')
               THEN /\ last' = Call("begin", <<densityInKiloBits, i2cAddress, typebufferSize>>,
                                    BufferAllocationFailedError, 0, FALSE, <<>>, <<>>)
                    /\ UNCHANGED <<density_, i2cAddress_, memorySize_, pageCount_,
                                   addressBytesCount_, buffer, initialized_, identity, heap>>
               ELSE IF ~mallocOk
               THEN /\ typebuffer_' = 0
                    /\ last' = Call("begin", <<densityInKiloBits, i2cAddress, typebufferSize>>,
                                    BufferAllocationFailedError, 0, FALSE, <<>>, <<>>)
                    /\ UNCHANGED <<density_, i2cAddress_, memorySize_, pageCount_,
                                   addressBytesCount_, typebufferSize_, initialized_,
                                   identity, heap>>
               ELSE /\ Len(heap) < MaxAllocs
                    /\ heap' = Append(heap, Block(typebufferSize))
                    /\ typebuffer_' = Len(heap) + 1
                    /\ typebufferSize_' = typebufferSize
                    /\ i2cAddress_' = i2cAddress
                    /\ density_' = densityInKiloBits
                    /\ memorySize_' = densityToMemorySize(densityInKiloBits)
                    /\ addressBytesCount_' = IF pageSize_' = 256 THEN 1 ELSE 2
                    /\ pageCount_' = U8(memorySize_' \div pageSize_')
                    /\ initialized_' = TRUE
                    /\ deviceIdChecked_' = FALSE
                    /\ deviceIdSupported_' = FALSE
                    /\ manufacturerId_' = 0
                    /\ productId_' = 0
                    /\ last' = Call("begin", <<densityInKiloBits, i2cAddress, typebufferSize>>,
                                    Success, 0, FALSE, <<>>, <<>>)
    /\ prev' = storedCall(last)
    /\ UNCHANGED <<alive, fram, calls, loop>>

----------------------------------------------------------------------------
(* FramI2C::end, FramI2C.cpp:89-110.  typebuffer_ is freed but keeps its    *)
(* value.                                                                   *)

(* As end, with the initialized flag left as it was. *)
endLeavesInitialized ==
    /\ alive = "live"
    /\ initialized_' = initialized_
    /\ IF typebuffer_ # 0
       THEN /\ heap' = Released(heap, typebuffer_)
            /\ alive' \in AfterRelease(heap, typebuffer_)
       ELSE UNCHANGED <<heap, alive>>
    /\ typebufferSize_' = 0
    /\ i2cAddress_' = 0
    /\ density_' = 0
    /\ memorySize_' = 0
    /\ pageSize_' = 0
    /\ pageCount_' = 0
    /\ addressBytesCount_' = 0
    /\ deviceIdChecked_' = FALSE
    /\ deviceIdSupported_' = FALSE
    /\ manufacturerId_' = 0
    /\ productId_' = 0
    /\ last' = Call("end", <<>>, Uninitialized, 0, FALSE, <<>>, <<>>)
    /\ prev' = storedCall(last)
    /\ UNCHANGED <<typebuffer_, fram, calls, loop>>

end ==
    /\ alive = "live"
    /\ initialized_' = FALSE
    /\ IF typebuffer_ # 0
       THEN /\ heap' = Released(heap, typebuffer_)
            /\ alive' \in AfterRelease(heap, typebuffer_)
       ELSE UNCHANGED <<heap, alive>>
    /\ typebufferSize_' = 0
    /\ i2cAddress_' = 0
    /\ density_' = 0
    /\ memorySize_' = 0
    /\ pageSize_' = 0
    /\ pageCount_' = 0
    /\ addressBytesCount_' = 0
    /\ deviceIdChecked_' = FALSE
    /\ deviceIdSupported_' = FALSE
    /\ manufacturerId_' = 0
    /\ productId_' = 0
    /\ last' = Call("end", <<>>, Uninitialized, 0, FALSE, <<>>, <<>>)
    /\ prev' = storedCall(last)
    /\ UNCHANGED <<typebuffer_, fram, calls, loop>>

(* FramI2C::~FramI2C, FramI2C.cpp:23-29 *)
destroy ==
    /\ alive = "live"
    /\ IF typebuffer_ # 0
       THEN /\ heap' = Released(heap, typebuffer_)
            /\ alive' \in (AfterRelease(heap, typebuffer_) \ {"live"}) \cup {"destroyed"}
       ELSE /\ alive' = "destroyed"
            /\ UNCHANGED heap
    /\ last' = Call("destroy", <<>>, Uninitialized, 0, FALSE, <<>>, <<>>)
    /\ prev' = storedCall(last)
    /\ UNCHANGED <<fields, fram, calls, loop>>

----------------------------------------------------------------------------
(* FramI2C::getDeviceId, FramI2C.cpp:439-485.  t is what the transport      *)
(* answers: the count Wire.write returns, the code endTransmission returns, *)
(* the count requestFrom returns, the count Wire.readBytes copies and the   *)
(* bytes the device sends (logged with the Wire.readBytes call).  The result is the new identity fields, the      *)
(* value returned and the transport calls made.                             *)

IdAnswer(queued, twi, received, copied, bytes) ==
    [queued |-> queued, twi |-> twi, received |-> received, copied |-> copied,
     bytes |-> bytes]

IdResult(ok, supported, manufacturer, product, log) ==
    [ok |-> ok, supported |-> supported, manufacturer |-> manufacturer,
     product |-> product, log |-> log]

(* As productIdOf, without the mask on the middle byte. *)
productIdOfUnmasked(deviceId) == U16((deviceId[2] * 256) + deviceId[3])

(* Device ID bits 23-12 and 11-0, FramI2C.cpp:476, 479.  The two operands   *)
(* of each | have no bit in common, so | is +.                              *)
manufacturerIdOf(deviceId) == U16((deviceId[1] * 16) + (deviceId[2] \div 16))
productIdOf(deviceId) == U16(((deviceId[2] % 16) * 256) + deviceId[3])

(* A call on the Wire object that says whether the bus is released after it: *)
(* endTransmission(sendStop), requestFrom(address, quantity, sendStop).     *)
EvStop(call, addr, count, ret, sendStop) ==
    [call |-> call, addr |-> addr, bytes |-> <<>>, count |-> count, ret |-> ret,
     stop |-> sendStop]

(* As framingByte, without the shift. *)
framingByteUnshifted(i2cAddress) == U8(i2cAddress)

(* The byte queued at FramI2C.cpp:449, i2cAddress_ << 1 as Wire.write takes *)
(* it: the low 8 bits.                                                      *)
framingByte(i2cAddress) == U8(i2cAddress * 2)

getDeviceId(t) ==
    LET open  == <<Ev("beginTransmission", ReservedSlaveAddress, <<>>, 0, 0),
                   Ev("write", ReservedSlaveAddress, <<framingByte(i2cAddress_)>>, 1,
                      t.queued)>>
        close == Append(open, EvStop("endTransmission", ReservedSlaveAddress, 0, t.twi,
                                     FALSE))
        req   == Append(close, EvStop("requestFrom", ReservedSlaveAddress,
                                      DeviceIdSize, t.received, TRUE))
        got   == Append(req, Ev("readBytes", ReservedSlaveAddress, t.bytes,
                                DeviceIdSize, t.copied))
        deviceId == t.bytes
    IN  IF t.queued # 1
        THEN IdResult(FALSE, deviceIdSupported_, manufacturerId_, productId_, open)
        ELSE IF t.twi # TwiSuccess
        THEN IdResult(FALSE, deviceIdSupported_, manufacturerId_, productId_, close)
        ELSE IF t.received # DeviceIdSize
        THEN IdResult(FALSE, deviceIdSupported_, manufacturerId_, productId_, req)
        ELSE IF t.copied # DeviceIdSize
        THEN IdResult(FALSE, deviceIdSupported_, manufacturerId_, productId_, got)
        ELSE IdResult(TRUE, TRUE, manufacturerIdOf(deviceId), productIdOf(deviceId), got)

(* What an accessor does before it returns its field, FramI2C.cpp:163-166. *)
resolveIdentity(t) ==
    IF ~deviceIdChecked_
    THEN getDeviceId(t)
    ELSE IdResult(TRUE, deviceIdSupported_, manufacturerId_, productId_, <<>>)

accessor(name, t) ==
    /\ alive = "live"
    /\ LET r == resolveIdentity(t)
       IN  /\ deviceIdSupported_' = r.supported
           /\ manufacturerId_' = r.manufacturer
           /\ productId_' = r.product
           /\ last' = Call(name, <<>>, Uninitialized,
                           CASE name = "manufacturerId" -> r.manufacturer
                             [] name = "productId" -> r.product
                             [] OTHER -> 0,
                           name = "isDeviceIdSupported" /\ r.supported,
                           r.log, <<>>)
    /\ prev' = storedCall(last)
    /\ UNCHANGED <<geometry, buffer, initialized_, deviceIdChecked_, heap, alive, fram,
                   calls, loop>>

(* FramI2C.cpp:161-168, 171-178, 181-188 *)
isDeviceIdSupported(t) == accessor("isDeviceIdSupported", t)
manufacturerId(t) == accessor("manufacturerId", t)
productId(t) == accessor("productId", t)

----------------------------------------------------------------------------
(* The Wire transport and the FRAM devices behind it.                       *)
(*                                                                          *)
(* A plan says where the transport misbehaves during one driver call: in    *)
(* transaction number `chunk` (counted from 0) either the last Wire.write   *)
(* queues nothing ("queue"), endTransmission returns `code` ("twi"), or     *)
(* requestFrom delivers one byte less than asked ("short").                 *)

Plan(chunk, kind, code) == [chunk |-> chunk, kind |-> kind, code |-> code]

NoFault == Plan(0, "none", TwiSuccess)

queueAnswer(plan, k, n) ==
    IF plan.kind = "queue" /\ plan.chunk = k THEN 0 ELSE n

closeAnswer(plan, k) ==
    IF plan.kind = "twi" /\ plan.chunk = k THEN plan.code ELSE TwiSuccess

requestAnswer(plan, k, n) ==
    IF plan.kind = "short" /\ plan.chunk = k THEN n - 1 ELSE n

(* Content of a device cell that was never written. *)
factoryByte(dev, a) == (dev + 3 * a) % 251

cell(mem, dev, a) ==
    IF <<dev, a>> \in DOMAIN mem THEN mem[<<dev, a>>] ELSE factoryByte(dev, a)

(* The memory address a device latches from the address bytes it receives. *)
latched(addressBytes) ==
    IF Len(addressBytes) > 1
    THEN addressBytes[1] * 256 + addressBytes[2]
    ELSE addressBytes[1]

(* Sequential read and write from the latched address; the device's address *)
(* counter rolls over at the end of the page.                               *)
deviceRead(mem, dev, a, n) ==
    [i \in 1..n |-> cell(mem, dev, (a + i - 1) % pageSize_)]

deviceWrite(mem, dev, a, bytes) ==
    [c \in {<<dev, (a + i - 1) % pageSize_>> : i \in 1..Len(bytes)} |->
        bytes[((c[2] - a) % pageSize_) + 1]] @@ mem

(* The loop state: in-page address, bytes remaining, offset of dataChunk in *)
(* the caller's buffer, transaction number, transport log, caller's buffer  *)
(* and device memory.                                                       *)
Loop(framChunkAddress, totalBytesRemaining, off, k, log, data, mem) ==
    [framChunkAddress |-> framChunkAddress, totalBytesRemaining |-> totalBytesRemaining,
     off |-> off, k |-> k, log |-> log, data |-> data, mem |-> mem]

(* As advance, with the remaining count left where it was. *)
advanceRemainingStuck(s, chunkSize, log, data, mem) ==
    Loop(U16(s.framChunkAddress + chunkSize), s.totalBytesRemaining,
         s.off + chunkSize, s.k + 1, log, data, mem)

(* As advance, with the data cursor left where it was. *)
advanceAddressOnly(s, chunkSize, log, data, mem) ==
    Loop(U16(s.framChunkAddress + chunkSize), sizeSub(s.totalBytesRemaining, chunkSize),
         s.off, s.k + 1, log, data, mem)

(* The end of a loop iteration, FramI2C.cpp:267-269, 355-357, 428-429: the  *)
(* remaining count, the in-page address and the data cursor move on by      *)
(* chunkSize.                                                               *)
advance(s, chunkSize, log, data, mem) ==
    Loop(U16(s.framChunkAddress + chunkSize), sizeSub(s.totalBytesRemaining, chunkSize),
         s.off + chunkSize, s.k + 1, log, data, mem)

(* As addressWrites, with the low byte sent before the high byte. *)
addressWritesLowFirst(dev, framChunkAddress, lastAnswer) ==
    <<Ev("write", dev, <<U8(framChunkAddress % 256)>>, 1,
         IF addressBytesCount_ > 1 THEN 1 ELSE lastAnswer)>>
    \o (IF addressBytesCount_ > 1
        THEN <<Ev("write", dev, <<U8(framChunkAddress \div 256)>>, 1, lastAnswer)>>
        ELSE <<>>)

(* The address bytes the driver queues, FramI2C.cpp:235-239, 327-331, 405-409 *)
addressWrites(dev, framChunkAddress, lastAnswer) ==
    (IF addressBytesCount_ > 1
     THEN <<Ev("write", dev, <<U8(framChunkAddress \div 256)>>, 1, 1)>>
     ELSE <<>>)
    \o <<Ev("write", dev, <<U8(framChunkAddress % 256)>>, 1, lastAnswer)>>

queuedBytes(writes) ==
    LET RECURSIVE sum(_)
        sum(i) == IF i = 0 THEN 0 ELSE sum(i - 1) + writes[i].ret
    IN  sum(Len(writes))

sentBytes(writes) ==
    LET RECURSIVE cat(_)
        cat(i) == IF i = 0 THEN <<>> ELSE cat(i - 1) \o writes[i].bytes
    IN  cat(Len(writes))

(* FramI2C::twiCodeToResultCode, FramI2C.cpp:546-565 *)
twiCodeToResultCode(twiCode) ==
    CASE twiCode = TwiSuccess -> Success
      [] twiCode = TwiAddressNack -> I2CAddressNackError
      [] twiCode = TwiDataNack -> I2CDataNackError
      [] twiCode = TwiLineBusy -> I2CLineBusyError
      [] OTHER -> I2CUnknownTwiResultCode

(* What a chunked transfer leaves behind. *)
Xfer(result, log, data, mem) ==
    [result |-> result, log |-> log, data |-> data, mem |-> mem]

----------------------------------------------------------------------------
(* FramI2C::readBytes, FramI2C.cpp:198-276 *)

(* The checks before the loop, FramI2C.cpp:207-222 *)
readChecks(page, address, byteCount, data) ==
    IF ~initialized_ THEN NotInitializedError
    ELSE IF data.null THEN NullPtrError
    ELSE IF page >= pageCount_ THEN InvalidPageError
    ELSE IF (address >= pageSize_) \/ sizeGt(sizeAdd(address, byteCount), pageSize_)
    THEN PageSizeRangeError
    ELSE Success

(* FramI2C.cpp:231 *)
readChunkSize(totalBytesRemaining) ==
    IF sizeGt(totalBytesRemaining, I2CBufferLength) THEN I2CBufferLength ELSE totalBytesRemaining

(* data with the n bytes of chunk stored from offset off on *)
copied(data, off, chunk) ==
    SubSeq(data, 1, off) \o chunk \o SubSeq(data, off + Len(chunk) + 1, Len(data))

(* As readChunk, with a short read answered by running the transaction again. *)
readChunkRetries(pageI2cAddress, s, plan, chunkSize) ==
    LET writes == addressWrites(pageI2cAddress, s.framChunkAddress,
                                queueAnswer(plan, s.k, 1))
        bytesQueued == queuedBytes(writes)
        queued == s.log \o <<Ev("beginTransmission", pageI2cAddress, <<>>, 0, 0)>> \o writes
        twiresult == closeAnswer(plan, s.k)
        closed == Append(queued, Ev("endTransmission", pageI2cAddress, <<>>, 1, twiresult))
        bytesRead == requestAnswer(plan, s.k, chunkSize)
        asked == Append(closed, Ev("requestFrom", pageI2cAddress, <<>>, chunkSize, bytesRead))
        chunk == deviceRead(s.mem, pageI2cAddress, latched(sentBytes(writes)), chunkSize)
    IN  IF bytesQueued # addressBytesCount_
        THEN [stop |-> TRUE, xfer |-> Xfer(I2CWriteError, queued, s.data, s.mem)]
        ELSE IF twiresult # TwiSuccess
        THEN [stop |-> TRUE,
              xfer |-> Xfer(twiCodeToResultCode(twiresult), closed, s.data, s.mem)]
        ELSE IF bytesRead # chunkSize
        THEN [stop |-> FALSE, state |-> [s EXCEPT !.k = @ + 1, !.log = asked]]
        ELSE [stop |-> FALSE,
              state |-> advance(s, chunkSize, asked, copied(s.data, s.off, chunk), s.mem)]

(* One read transaction, FramI2C.cpp:231-269: the address bytes,            *)
(* endTransmission, requestFrom, then the copy into dataChunk.  Either the  *)
(* method returns (stop, with what it returns) or the loop goes on from the *)
(* advanced state.                                                          *)
readChunk(pageI2cAddress, s, plan, chunkSize) ==
    LET writes == addressWrites(pageI2cAddress, s.framChunkAddress,
                                queueAnswer(plan, s.k, 1))
        bytesQueued == queuedBytes(writes)
        queued == s.log \o <<Ev("beginTransmission", pageI2cAddress, <<>>, 0, 0)>> \o writes
        twiresult == closeAnswer(plan, s.k)
        closed == Append(queued, Ev("endTransmission", pageI2cAddress, <<>>, 1, twiresult))
        bytesRead == requestAnswer(plan, s.k, chunkSize)
        asked == Append(closed, Ev("requestFrom", pageI2cAddress, <<>>, chunkSize, bytesRead))
        chunk == deviceRead(s.mem, pageI2cAddress, latched(sentBytes(writes)), chunkSize)
    IN  IF bytesQueued # addressBytesCount_
        THEN [stop |-> TRUE, xfer |-> Xfer(I2CWriteError, queued, s.data, s.mem)]
        ELSE IF twiresult # TwiSuccess
        THEN [stop |-> TRUE,
              xfer |-> Xfer(twiCodeToResultCode(twiresult), closed, s.data, s.mem)]
        ELSE IF bytesRead # chunkSize
        THEN [stop |-> TRUE, xfer |-> Xfer(I2CReadError, asked, s.data, s.mem)]
        ELSE [stop |-> FALSE,
              state |-> advance(s, chunkSize, asked, copied(s.data, s.off, chunk), s.mem)]

(* The while loop, FramI2C.cpp:229-275 *)
RECURSIVE readLoop(_, _, _)
readLoop(pageI2cAddress, s, plan) ==
    IF ~sizeGt(s.totalBytesRemaining, 0)
    THEN Xfer(Success, s.log, s.data, s.mem)
    ELSE
    LET chunkSize == readChunkSize(s.totalBytesRemaining)
        chunk == readChunk(pageI2cAddress, s, plan, chunkSize)
    IN  IF chunk.stop THEN chunk.xfer
        ELSE readLoop(pageI2cAddress, chunk.state, plan)

----------------------------------------------------------------------------
(* FramI2C::writeBytes, FramI2C.cpp:286-364 *)

(* The checks before the loop, FramI2C.cpp:297-312 *)
writeChecks(page, address, byteCount, data) ==
    IF ~initialized_ THEN NotInitializedError
    ELSE IF data.null THEN NullPtrError
    ELSE IF page >= pageCount_ THEN InvalidPageError
    ELSE IF (address >= pageSize_) \/ sizeGt(sizeAdd(address, byteCount), pageSize_)
    THEN PageSizeRangeError
    ELSE Success

(* FramI2C.cpp:318, 395 *)
i2cBufferUsableLength == I2CBufferLength - addressBytesCount_

(* As writeChunkSize, with the whole transport buffer taken for data. *)
writeChunkSizeWholeBuffer(totalBytesRemaining) ==
    IF sizeGt(totalBytesRemaining, I2CBufferLength)
    THEN I2CBufferLength ELSE totalBytesRemaining

(* As writeChunkSize, with room left for one address byte whatever the      *)
(* address width.                                                           *)
writeChunkSizeOneAddressByte(totalBytesRemaining) ==
    IF sizeGt(totalBytesRemaining, I2CBufferLength - 1)
    THEN I2CBufferLength - 1 ELSE totalBytesRemaining

(* FramI2C.cpp:323, 401 *)
writeChunkSize(totalBytesRemaining) ==
    IF sizeGt(totalBytesRemaining, i2cBufferUsableLength)
    THEN i2cBufferUsableLength ELSE totalBytesRemaining

(* One write transaction, FramI2C.cpp:325-357 and 403-429: the address      *)
(* bytes, then payload, then endTransmission.  Either the method returns    *)
(* (stop, with what it returns) or the loop goes on from the advanced state.*)
writeChunk(pageI2cAddress, s, plan, chunkSize, payload) ==
    LET writes == addressWrites(pageI2cAddress, s.framChunkAddress, 1)
                  \o <<Ev("write", pageI2cAddress, payload, chunkSize,
                          queueAnswer(plan, s.k, chunkSize))>>
        bytesQueued == queuedBytes(writes)
        queued == s.log \o <<Ev("beginTransmission", pageI2cAddress, <<>>, 0, 0)>> \o writes
        twiresult == closeAnswer(plan, s.k)
        closed == Append(queued, Ev("endTransmission", pageI2cAddress, <<>>, 1, twiresult))
        sent == sentBytes(writes)
        stored == deviceWrite(s.mem, pageI2cAddress,
                              latched(SubSeq(sent, 1, addressBytesCount_)),
                              SubSeq(sent, addressBytesCount_ + 1, Len(sent)))
    IN  IF bytesQueued # addressBytesCount_ + chunkSize
        THEN [stop |-> TRUE, xfer |-> Xfer(I2CWriteError, queued, s.data, s.mem)]
        ELSE IF twiresult # TwiSuccess
        THEN [stop |-> TRUE,
              xfer |-> Xfer(twiCodeToResultCode(twiresult), closed, s.data, s.mem)]
        ELSE [stop |-> FALSE,
              state |-> advance(s, chunkSize, closed, s.data, stored)]

(* The while loop, FramI2C.cpp:321-363 *)
RECURSIVE writeLoop(_, _, _)
writeLoop(pageI2cAddress, s, plan) ==
    IF ~sizeGt(s.totalBytesRemaining, 0)
    THEN Xfer(Success, s.log, s.data, s.mem)
    ELSE
    LET chunkSize == writeChunkSize(s.totalBytesRemaining)
        chunk == writeChunk(pageI2cAddress, s, plan, chunkSize,
                            SubSeq(s.data, s.off + 1, s.off + chunkSize))
    IN  IF chunk.stop THEN chunk.xfer
        ELSE writeLoop(pageI2cAddress, chunk.state, plan)

----------------------------------------------------------------------------
(* FramI2C::fill, FramI2C.cpp:374-436 *)

(* The checks before the loop, FramI2C.cpp:379-390 *)
fillChecks(page, address, byteCount) ==
    IF ~initialized_ THEN NotInitializedError
    ELSE IF page >= pageCount_ THEN InvalidPageError
    ELSE IF (address >= pageSize_) \/ sizeGt(sizeAdd(address, byteCount), pageSize_)
    THEN PageSizeRangeError
    ELSE Success

(* As fillPayload, with the value queued once and zeroes after it. *)
fillPayloadOnce(chunkSize, value) ==
    [i \in 1..chunkSize |-> IF i = 1 THEN value ELSE 0]

(* The data bytes of one fill transaction, FramI2C.cpp:412-415: chunkSize   *)
(* times Wire.write(value).                                                 *)
fillPayload(chunkSize, value) == [i \in 1..chunkSize |-> value]

(* The while loop, FramI2C.cpp:399-435; the chunkSize calls Wire.write(value) *)
(* of lines 412-415 are logged as one write of chunkSize bytes.              *)
RECURSIVE fillLoop(_, _, _, _)
fillLoop(pageI2cAddress, s, plan, value) ==
    IF ~sizeGt(s.totalBytesRemaining, 0)
    THEN Xfer(Success, s.log, s.data, s.mem)
    ELSE
    LET chunkSize == writeChunkSize(s.totalBytesRemaining)
        chunk == writeChunk(pageI2cAddress, s, plan, chunkSize,
                            fillPayload(chunkSize, value))
    IN  IF chunk.stop THEN chunk.xfer
        ELSE fillLoop(pageI2cAddress, chunk.state, plan, value)

----------------------------------------------------------------------------
(* The three transfer methods as actions.  data is the caller's buffer:     *)
(* absent (nullptr) or byteCount bytes.                                     *)

NullPtr == [null |-> TRUE, bytes |-> <<>>]
Buffer(bytes) == [null |-> FALSE, bytes |-> bytes]

MaxCalls == 2

(* As transfer, with the page range checked after the loop has run. *)
transferRangeCheckedLate(op, arg, checks, r) ==
    /\ alive = "live"
    /\ calls < MaxCalls
    /\ calls' = calls + 1
    /\ prev' = storedCall(last)
    /\ IF checks \notin {Success, PageSizeRangeError}
       THEN /\ last' = Call(op, arg, checks, 0, FALSE, <<>>, arg[4].bytes)
            /\ fram' = fram
       ELSE /\ last' = Call(op, arg, IF checks = Success THEN r.result ELSE checks,
                            0, FALSE, r.log, r.data)
            /\ fram' = r.mem
    /\ UNCHANGED <<fields, heap, alive, loop>>

(* A transfer method: its checks, then its loop, FramI2C.cpp:207-275,       *)
(* 297-363, 379-435.                                                        *)
transfer(op, arg, checks, r) ==
    /\ alive = "live"
    /\ calls < MaxCalls
    /\ calls' = calls + 1
    /\ prev' = storedCall(last)
    /\ IF checks # Success
       THEN /\ last' = Call(op, arg, checks, 0, FALSE, <<>>, arg[4].bytes)
            /\ fram' = fram
       ELSE /\ last' = Call(op, arg, r.result, 0, FALSE, r.log, r.data)
            /\ fram' = r.mem
    /\ UNCHANGED <<fields, heap, alive, loop>>

readBytes(page, address, byteCount, data, plan) ==
    transfer("readBytes", <<page, address, byteCount, data>>,
             readChecks(page, address, byteCount, data),
             readLoop(U8(i2cAddress_ + page),
                      Loop(address, byteCount, 0, 0, <<>>, data.bytes, fram), plan))

writeBytes(page, address, byteCount, data, plan) ==
    transfer("writeBytes", <<page, address, byteCount, data>>,
             writeChecks(page, address, byteCount, data),
             writeLoop(U8(i2cAddress_ + page),
                       Loop(address, byteCount, 0, 0, <<>>, data.bytes, fram), plan))

fill(page, address, byteCount, value, plan) ==
    transfer("fill", <<page, address, byteCount, Buffer(<<value>>)>>,
             fillChecks(page, address, byteCount),
             fillLoop(U8(i2cAddress_ + page),
                      Loop(address, byteCount, 0, 0, <<>>, <<value>>, fram), plan, value))

----------------------------------------------------------------------------
(* The three transfer methods followed one loop iteration at a time: enter  *)
(* runs the checks and sets up the loop variables (FramI2C.cpp:207-227,     *)
(* 297-319, 379-397), iterate runs the body of the while loop once with the *)
(* transport answering, leave is the return after the loop.  The device     *)
(* memory the loop has written so far is carried in the loop state.         *)

Running(op, arg, pageI2cAddress, plan, s) ==
    [op |-> op, arg |-> arg, pageI2cAddress |-> pageI2cAddress, plan |-> plan, s |-> s]

MaxLoopCalls == 1

enter(op, arg, checks, plan) ==
    /\ alive = "live"
    /\ loop = Idle
    /\ calls < MaxLoopCalls
    /\ calls' = calls + 1
    /\ prev' = storedCall(last)
    /\ IF checks # Success
       THEN /\ last' = Call(op, arg, checks, 0, FALSE, <<>>, arg[4].bytes)
            /\ loop' = Idle
       ELSE /\ loop' = Running(op, arg, U8(i2cAddress_ + arg[1]), plan,
                               Loop(arg[2], arg[3], 0, 0, <<>>, arg[4].bytes, fram))
            /\ last' = last
    /\ UNCHANGED <<fields, heap, alive, fram>>

(* The body of the while loop of the method the call is in. *)
iteration(l) ==
    IF l.op = "readBytes"
    THEN readChunk(l.pageI2cAddress, l.s, l.plan, readChunkSize(l.s.totalBytesRemaining))
    ELSE LET chunkSize == writeChunkSize(l.s.totalBytesRemaining)
         IN  writeChunk(l.pageI2cAddress, l.s, l.plan, chunkSize,
                        IF l.op = "fill"
                        THEN fillPayload(chunkSize, l.arg[4].bytes[1])
                        ELSE SubSeq(l.s.data, l.s.off + 1, l.s.off + chunkSize))

iterate ==
    /\ loop # Idle
    /\ sizeGt(loop.s.totalBytesRemaining, 0)
    /\ \E chunk \in {iteration(loop)} :
           IF chunk.stop
           THEN /\ last' = Call(loop.op, loop.arg, chunk.xfer.result, 0, FALSE,
                                chunk.xfer.log, chunk.xfer.data)
                /\ fram' = chunk.xfer.mem
                /\ loop' = Idle
           ELSE /\ loop' = [loop EXCEPT !.s = chunk.state]
                /\ UNCHANGED <<last, fram>>
    /\ UNCHANGED <<fields, heap, alive, calls, prev>>

(* return FramI2C::ResultCode::Success, FramI2C.cpp:275, 363, 435 *)
leave ==
    /\ loop # Idle
    /\ ~sizeGt(loop.s.totalBytesRemaining, 0)
    /\ last' = Call(loop.op, loop.arg, Success, 0, FALSE, loop.s.log, loop.s.data)
    /\ fram' = loop.s.mem
    /\ loop' = Idle
    /\ UNCHANGED <<fields, heap, alive, calls, prev>>

----------------------------------------------------------------------------
(* The typed methods read<T> and write<T>, FramI2C.h:87-136.  size is       *)
(* sizeof(T), at least 1; t is the object representation of the caller's    *)
(* value; the type buffer is the block typebuffer_ points to.               *)

(* As typeOverflows, with the comparison off by one. *)
typeOverflowsOffByOne(size) == sizeGt(size, typebufferSize_ + 1)

(* As typeOverflows, with sizeof(T) compared to the capacity of the block    *)
(* typebuffer_ points to instead of the stored size.                        *)
typeOverflowsBlock(size) == typebuffer_ = 0 \/ sizeGt(size, heap[typebuffer_].size)

(* sizeof(T) > typebufferSize_, FramI2C.h:98, 129 *)
typeOverflows(size) == sizeGt(size, typebufferSize_)

(* As typedValue, with the memcpy done whatever readBytes returned. *)
typedValueAlways(resultcode, scratch, size, t) == SubSeq(scratch, 1, size)

(* The value of t after read<T>, FramI2C.h:103-108 *)
typedValue(resultcode, scratch, size, t) ==
    IF resultcode = Success THEN SubSeq(scratch, 1, size) ELSE t

(* The pointer handed to readBytes and writeBytes, with what it points to. *)
typebuffer(bytes) == IF typebuffer_ = 0 THEN NullPtr ELSE Buffer(bytes)

(* FramI2C::read<T>, FramI2C.h:87-109 *)
read(page, address, size, t, plan) ==
    /\ alive = "live"
    /\ calls < MaxCalls
    /\ calls' = calls + 1
    /\ prev' = storedCall(last)
    /\ IF typeOverflows(size)
       THEN /\ last' = Call("read", <<page, address, size, Buffer(t)>>,
                            BufferOverflowError, 0, FALSE, <<>>, t)
            /\ UNCHANGED <<fram, heap>>
       ELSE LET scratch == heap[typebuffer_].bytes
                checks == readChecks(page, address, size, typebuffer(scratch))
                r == readLoop(U8(i2cAddress_ + page),
                              Loop(address, size, 0, 0, <<>>, scratch, fram), plan)
            IN  IF checks # Success
                THEN /\ last' = Call("read", <<page, address, size, Buffer(t)>>,
                                     checks, 0, FALSE, <<>>,
                                     typedValue(checks, scratch, size, t))
                     /\ UNCHANGED <<fram, heap>>
                ELSE /\ heap' = [heap EXCEPT ![typebuffer_].bytes = r.data]
                     /\ fram' = r.mem
                     /\ last' = Call("read", <<page, address, size, Buffer(t)>>,
                                     r.result, 0, FALSE, r.log,
                                     typedValue(r.result, r.data, size, t))
    /\ UNCHANGED <<fields, alive, loop>>

(* FramI2C::write<T>, FramI2C.h:119-136: the value is copied into the type  *)
(* buffer before writeBytes looks at the request.                           *)
write(page, address, size, t, plan) ==
    /\ alive = "live"
    /\ calls < MaxCalls
    /\ calls' = calls + 1
    /\ prev' = storedCall(last)
    /\ IF typeOverflows(size)
       THEN /\ last' = Call("write", <<page, address, size, Buffer(t)>>,
                            BufferOverflowError, 0, FALSE, <<>>, t)
            /\ UNCHANGED <<fram, heap>>
       ELSE LET scratch == copied(heap[typebuffer_].bytes, 0, t)
                checks == writeChecks(page, address, size, typebuffer(scratch))
                r == writeLoop(U8(i2cAddress_ + page),
                               Loop(address, size, 0, 0, <<>>, scratch, fram), plan)
            IN  /\ heap' = [heap EXCEPT ![typebuffer_].bytes = scratch]
                /\ IF checks # Success
                   THEN /\ last' = Call("write", <<page, address, size, Buffer(t)>>,
                                        checks, 0, FALSE, <<>>, t)
                        /\ fram' = fram
                   ELSE /\ last' = Call("write", <<page, address, size, Buffer(t)>>,
                                        r.result, 0, FALSE, r.log, t)
                        /\ fram' = r.mem
    /\ UNCHANGED <<fields, alive, loop>>

----------------------------------------------------------------------------
(* Life cycle and identification: any begin, end, destructor and identity   *)
(* accessor call, in any order.                                             *)

Densities == {0, 4, 16, 64, 100, 128, 256, 512, 1024}
BusAddresses == {80, 81}
BufferSizes == {10, 257}

(* malloc's answer matters only to a begin that reaches it. *)
reachesMalloc(d, n) ==
    ~initialized_ /\ isDensitySupported(d) /\ ~sizeGt(n, densityToPageSize(d))

MallocAnswers(d, n) == IF reachesMalloc(d, n) THEN BOOLEAN ELSE {TRUE}

IdBytes == {<<4, 8, 66>>, <<0, 165, 16>>, <<255, 255, 255>>}

IdFailures ==
    {IdAnswer(0, TwiSuccess, DeviceIdSize, DeviceIdSize, <<4, 8, 66>>),
     IdAnswer(1, TwiAddressNack, DeviceIdSize, DeviceIdSize, <<4, 8, 66>>),
     IdAnswer(1, TwiSuccess, 0, 0, <<4, 8, 66>>),
     IdAnswer(1, TwiSuccess, DeviceIdSize, 2, <<4, 8, 66>>)}

IdAnswers ==
    {IdAnswer(1, TwiSuccess, DeviceIdSize, DeviceIdSize, b) : b \in IdBytes}
    \cup IdFailures

Next ==
    \/ \E d \in Densities, a \in BusAddresses, n \in BufferSizes :
          \E m \in MallocAnswers(d, n) : begin(d, a, n, m)
    \/ end
    \/ destroy
    \/ \E t \in {IdAnswer(1, TwiSuccess, DeviceIdSize, DeviceIdSize, <<4, 8, 66>>),
                 IdAnswer(1, TwiAddressNack, DeviceIdSize, DeviceIdSize, <<4, 8, 66>>)} :
          isDeviceIdSupported(t)

Spec == Init /\ [][Next]_vars

----------------------------------------------------------------------------
(* Identification: a device is initialized, torn down and asked for its     *)
(* identity through the three accessors, with every answer of the bus.      *)
(* begin takes any uint8_t as bus address, one above 0x7F included.         *)

IdBusAddresses == BusAddresses \cup {208}

NextId ==
    \/ \E a \in IdBusAddresses : begin(64, a, 10, TRUE)
    \/ end
    \/ \E t \in IdAnswers : isDeviceIdSupported(t)
    \/ \E t \in IdAnswers : manufacturerId(t)
    \/ \E t \in IdAnswers : productId(t)

SpecId == Init /\ [][NextId]_vars

----------------------------------------------------------------------------
(* Transfers over a transport that never fails: a device of each addressing *)
(* kind (256-byte pages with 1 address byte, one 8192-byte page, 65536-byte *)
(* pages) and requests inside, at the edges of and outside its pages.       *)

XferDensities == {4, 64, 1024}

XferRequests ==
    {<<0, 100, n>> : n \in {0, 1, 50, 70}}
    \cup {<<1, 100, 70>>, <<0, 0, 32>>, <<0, 250, 6>>, <<0, 250, 7>>, <<0, 256, 0>>,
          <<0, 8160, 32>>, <<0, 8160, 33>>, <<0, 8192, 0>>,
          <<1, 65500, 36>>, <<1, 65500, 37>>, <<0, 65535, 1>>, <<2, 0, 1>>}

(* The requests that are also made without a buffer. *)
NullRequests == {<<0, 100, 50>>, <<0, 100, 0>>, <<2, 0, 1>>, <<0, 250, 7>>}

(* The caller's buffers: one to read into, one to write from. *)
blank(n) == [i \in 1..n |-> 238]
pattern(n) == [i \in 1..n |-> (17 + 5 * i) % 256]

FillValues == {170}

NextXfer ==
    \/ \E d \in XferDensities : begin(d, 80, 10, TRUE)
    \/ \E r \in XferRequests : readBytes(r[1], r[2], r[3], Buffer(blank(r[3])), NoFault)
    \/ \E r \in NullRequests : readBytes(r[1], r[2], r[3], NullPtr, NoFault)
    \/ \E r \in XferRequests : writeBytes(r[1], r[2], r[3], Buffer(pattern(r[3])), NoFault)
    \/ \E r \in NullRequests : writeBytes(r[1], r[2], r[3], NullPtr, NoFault)
    \/ \E r \in XferRequests, v \in FillValues :
          fill(r[1], r[2], r[3], v, NoFault)

SpecXfer == Init /\ [][NextXfer]_vars

----------------------------------------------------------------------------
(* Transfers over a transport that fails: in the first or the second        *)
(* transaction of a call a write queues nothing, endTransmission reports a  *)
(* code, or requestFrom comes back short.  A fill of SIZE_MAX bytes is      *)
(* followed only as far as such a failure.                                  *)

BusDensities == {4, 64}

BusRequests == {<<0, 100, 1>>, <<0, 100, 70>>}

TwiCodes == {TwiBufferOverflow, TwiAddressNack, TwiDataNack, TwiLineBusy, 5, 255}

Faults ==
    {Plan(0, "twi", c) : c \in TwiCodes}
    \cup {Plan(1, "twi", TwiAddressNack)}
    \cup {Plan(k, kind, TwiSuccess) : k \in {0, 1}, kind \in {"queue", "short"}}

NextBus ==
    \/ \E d \in BusDensities : begin(d, 80, 10, TRUE)
    \/ \E r \in BusRequests, f \in Faults \cup {NoFault} :
          readBytes(r[1], r[2], r[3], Buffer(blank(r[3])), f)
    \/ \E r \in BusRequests, f \in Faults \cup {NoFault} :
          writeBytes(r[1], r[2], r[3], Buffer(pattern(r[3])), f)
    \/ \E r \in BusRequests, v \in FillValues, f \in Faults \cup {NoFault} :
          fill(r[1], r[2], r[3], v, f)
    \/ \E v \in FillValues, f \in {g \in Faults : g.kind # "short"} :
          fill(0, 1, SizeMax, v, f)

SpecBus == Init /\ [][NextBus]_vars

----------------------------------------------------------------------------
(* Typed values: a type buffer of 40 bytes, types that fit in one           *)
(* transaction, that take two, and that do not fit the type buffer, over a  *)
(* transport that may fail in the first or the second transaction.  The     *)
(* device may be torn down and initialized again, and malloc may fail.      *)

TypeBufferSize == 40
TypeSizes == {4, 40, 41}
TypedRequests == {<<0, 100>>, <<2, 0>>}

TypedFaults ==
    {NoFault, Plan(0, "twi", TwiAddressNack), Plan(1, "twi", TwiAddressNack),
     Plan(1, "short", TwiSuccess)}

NextTyped ==
    \/ \E d \in BusDensities, m \in BOOLEAN : begin(d, 80, TypeBufferSize, m)
    \/ end
    \/ \E r \in TypedRequests, n \in TypeSizes, f \in TypedFaults :
          read(r[1], r[2], n, blank(n), f)
    \/ \E r \in TypedRequests, n \in TypeSizes, f \in TypedFaults :
          write(r[1], r[2], n, pattern(n), f)

SpecTyped == Init /\ [][NextTyped]_vars

----------------------------------------------------------------------------
(* The transfer loops step by step: requests of no, one and three           *)
(* chunks, a refused request, and a transport that may fail in the second   *)
(* transaction.  A call that has entered its loop goes on running: the next *)
(* iteration or the return is taken as long as the transport answers.       *)

LoopRequests == {<<0, 100, 0>>, <<0, 100, 1>>, <<0, 100, 70>>, <<2, 0, 1>>}

LoopFaults == {NoFault, Plan(1, "twi", TwiDataNack), Plan(1, "short", TwiSuccess)}

NextLoop ==
    \/ \E d \in BusDensities : loop = Idle /\ begin(d, 80, 10, TRUE)
    \/ \E r \in LoopRequests, f \in LoopFaults :
          enter("readBytes", <<r[1], r[2], r[3], Buffer(blank(r[3]))>>,
                readChecks(r[1], r[2], r[3], Buffer(blank(r[3]))), f)
    \/ \E r \in LoopRequests, f \in LoopFaults :
          enter("writeBytes", <<r[1], r[2], r[3], Buffer(pattern(r[3]))>>,
                writeChecks(r[1], r[2], r[3], Buffer(pattern(r[3]))), f)
    \/ \E r \in LoopRequests, v \in FillValues, f \in LoopFaults :
          enter("fill", <<r[1], r[2], r[3], Buffer(<<v>>)>>,
                fillChecks(r[1], r[2], r[3]), f)
    \/ iterate
    \/ leave

SpecLoop == Init /\ [][NextLoop]_vars /\ WF_vars(iterate) /\ WF_vars(leave)

----------------------------------------------------------------------------
(* Bus addresses: begin takes any uint8_t as i2cAddress and stores it       *)
(* (FramI2C.cpp:32, 70); devices with two pages are initialized at a usual  *)
(* address, at the highest 7-bit address and at the highest uint8_t, and    *)
(* both of their pages are used.                                            *)

AddrDensities == {4, 1024}
AddrBusAddresses == {80, 127, 255}
AddrRequests == {<<0, 100, 1>>, <<1, 100, 1>>, <<2, 100, 1>>}

NextAddr ==
    \/ \E d \in AddrDensities, a \in AddrBusAddresses : begin(d, a, 10, TRUE)
    \/ \E r \in AddrRequests : readBytes(r[1], r[2], r[3], Buffer(blank(r[3])), NoFault)
    \/ \E r \in AddrRequests : writeBytes(r[1], r[2], r[3], Buffer(pattern(r[3])), NoFault)
    \/ \E r \in AddrRequests, v \in FillValues : fill(r[1], r[2], r[3], v, NoFault)

SpecAddr == Init /\ [][NextAddr]_vars

----------------------------------------------------------------------------
(* Reading a call record and its transport log.                             *)

Transfers == {"readBytes", "writeBytes", "fill"}
Accessors == {"isDeviceIdSupported", "manufacturerId", "productId"}
ValidationErrors ==
    {NotInitializedError, InvalidPageError, PageSizeRangeError, NullPtrError}

(* The transactions of a log, in order: for each beginTransmission the bus  *)
(* address it opened, the memory address carried by the address bytes that  *)
(* followed, and the number of data bytes queued after them (write, fill)   *)
(* or asked for by the requestFrom that followed (read).                    *)
segmentEnd(log, i) ==
    IF \E j \in (i + 1)..Len(log) : log[j].call = "beginTransmission"
    THEN (CHOOSE j \in (i + 1)..Len(log) :
             /\ log[j].call = "beginTransmission"
             /\ \A m \in (i + 1)..(j - 1) : log[m].call # "beginTransmission") - 1
    ELSE Len(log)

transactionAt(log, i, width) ==
    LET seg == SubSeq(log, i + 1, segmentEnd(log, i))
        sent == sentBytes(SelectSeq(seg, LAMBDA e : e.call = "write"))
        asks == SelectSeq(seg, LAMBDA e : e.call = "requestFrom")
    IN  [bus |-> log[i].addr,
         address |-> IF Len(sent) >= width THEN latched(SubSeq(sent, 1, width)) ELSE 0 - 1,
         length |-> IF asks # <<>> THEN asks[1].count ELSE Len(sent) - width]

Transactions(log, width) ==
    LET RECURSIVE from(_)
        from(i) ==
            IF i > Len(log) THEN <<>>
            ELSE IF log[i].call = "beginTransmission"
            THEN <<transactionAt(log, i, width)>> \o from(i + 1)
            ELSE from(i + 1)
    IN  from(1)

Ceil(n, c) == (n + c - 1) \div c
Min(a, b) == IF a < b THEN a ELSE b

(* The last call was a transfer whose request is valid for the device as it *)
(* is configured: page < pageCount, address < pageSize,                     *)
(* address + length <= pageSize, buffer present.                            *)
ValidRequest ==
    /\ last.op \in Transfers
    /\ initialized_
    /\ last.arg[1] < pageCount_
    /\ last.arg[2] < pageSize_
    /\ last.arg[3] >= 0
    /\ last.arg[2] + last.arg[3] <= pageSize_
    /\ ~last.arg[4].null

ChunkSizeFor(op) ==
    IF op = "readBytes" THEN I2CBufferLength ELSE I2CBufferLength - addressBytesCount_

----------------------------------------------------------------------------
(* C1: on an initialized device and a transport without faults, a valid     *)
(* readBytes, writeBytes or fill issues exactly ceil(length / chunkSize)    *)
(* transactions (chunkSize 32 for read, 32 - addressByteWidth for write and *)
(* fill); transaction k carries in-page address address + k * chunkSize,    *)
(* and the transactions cover [address, address + length) without overlap   *)
(* and without gap.  On a 64 kilobit device fill(0, 100, 50, 0xAA) issues   *)
(* the transactions (100, 30) and (130, 20).                                *)
ChunkCoverage ==
    /\ ValidRequest =>
          LET t == Transactions(last.log, addressBytesCount_)
              size == ChunkSizeFor(last.op)
              address == last.arg[2]
              length == last.arg[3]
          IN  /\ Len(t) = Ceil(length, size)
              /\ \A k \in 1..Len(t) :
                    /\ t[k].address = address + (k - 1) * size
                    /\ t[k].length = Min(size, length - (k - 1) * size)
                    /\ t[k].length >= 1
                    /\ k < Len(t) => t[k + 1].address = t[k].address + t[k].length
              /\ Len(t) > 0 =>
                    t[Len(t)].address + t[Len(t)].length = address + length
    /\ (/\ last.op = "fill"
        /\ density_ = 64
        /\ initialized_
        /\ <<last.arg[1], last.arg[2], last.arg[3]>> = <<0, 100, 50>>)
       => [k \in 1..2 |-> <<Transactions(last.log, 2)[k].address,
                            Transactions(last.log, 2)[k].length>>]
          = <<(<<100, 30>>), (<<130, 20>>)>>

(* A fill of 50 bytes at address 100 of a 64 kilobit device has run and has *)
(* taken two transactions.                                                  *)
ChunkCoverageWitness ==
    /\ last.op = "fill"
    /\ density_ = 64
    /\ ValidRequest
    /\ <<last.arg[1], last.arg[2], last.arg[3]>> = <<0, 100, 50>>
    /\ Len(Transactions(last.log, addressBytesCount_)) = 2

----------------------------------------------------------------------------
(* C2: on an initialized device and a transport without faults, a valid     *)
(* writeBytes and a valid readBytes both return Success, and a readBytes    *)
(* that follows a writeBytes of the same (page, address, length) hands back *)
(* the bytes that were written.                                             *)
RoundTrip ==
    /\ (ValidRequest /\ last.op \in {"readBytes", "writeBytes"}) => last.result = Success
    /\ (/\ ValidRequest
        /\ last.op = "readBytes"
        /\ prev.op = "writeBytes"
        /\ <<prev.arg[1], prev.arg[2], prev.arg[3]>> = <<last.arg[1], last.arg[2], last.arg[3]>>)
       => last.data = prev.arg[4].bytes

(* 70 bytes written in 31-byte chunks to a device with 1-byte addresses     *)
(* were read back in 32-byte chunks.                                        *)
RoundTripWitness ==
    /\ ValidRequest
    /\ last.op = "readBytes"
    /\ prev.op = "writeBytes"
    /\ prev.arg = <<1, 100, 70, Buffer(pattern(70))>>
    /\ <<last.arg[1], last.arg[2], last.arg[3]>> = <<1, 100, 70>>
    /\ addressBytesCount_ = 1
    /\ last.data = pattern(70)
    /\ last.data # blank(70)

----------------------------------------------------------------------------
(* C3: on an initialized device, with page < pageCount and a buffer         *)
(* present, every readBytes, writeBytes or fill whose address >= pageSize   *)
(* or whose address + length > pageSize returns PageSizeRangeError,         *)
(* requests of length 0 at address = pageSize included.  (A length held as  *)
(* a negative number is 2^31 or more, beyond every page.)                   *)
RangeRejected ==
    (/\ last.op \in Transfers
     /\ initialized_
     /\ last.arg[1] < pageCount_
     /\ ~last.arg[4].null
     /\ \/ last.arg[2] >= pageSize_
        \/ last.arg[3] < 0
        \/ last.arg[2] + last.arg[3] > pageSize_)
    => last.result = PageSizeRangeError

----------------------------------------------------------------------------
(* C4: a readBytes, writeBytes or fill that returns NotInitializedError,    *)
(* InvalidPageError, PageSizeRangeError or NullPtrError has made no call on *)
(* the transport and has changed neither the caller's buffer nor the        *)
(* device memory.                                                           *)
FailFast ==
    [][(calls' # calls /\ last'.result \in ValidationErrors)
       => /\ last'.log = <<>>
          /\ last'.data = last'.arg[4].bytes
          /\ fram' = fram]_vars

(* A writeBytes reaching past the end of the page of a device that already  *)
(* holds written data was refused.                                          *)
FailFastWitness ==
    /\ last.op = "writeBytes"
    /\ last.result = PageSizeRangeError
    /\ last.arg[3] > 0
    /\ last.log = <<>>
    /\ DOMAIN fram # {}

----------------------------------------------------------------------------
(* C5: begin on an initialized device returns Success when density, bus     *)
(* address and type buffer size all equal the stored ones and               *)
(* AllreadyInitializedError when any of them differs; either way every      *)
(* stored field, the type buffer and the initialized flag stay as they are. *)
ReinitGuard ==
    [][(initialized_ /\ last'.op = "begin")
       => /\ last'.result =
                IF last'.arg = <<density_, i2cAddress_, typebufferSize_>>
                THEN Success ELSE AllreadyInitializedError
          /\ UNCHANGED <<fields, heap>>]_vars

(* begin was repeated with only the type buffer size changed, and refused. *)
ReinitGuardWitness ==
    /\ initialized_
    /\ last.op = "begin"
    /\ last.result = AllreadyInitializedError
    /\ last.arg[1] = density_
    /\ last.arg[2] = i2cAddress_
    /\ last.arg[3] # typebufferSize_

----------------------------------------------------------------------------
(* C6: end is idempotent: however often end and the destructor run after a  *)
(* successful begin, the type buffer is released once, never twice, and end *)
(* leaves every stored field at its empty value with initialized false.     *)
EndIdempotent ==
    /\ \A b \in 1..Len(heap) : heap[b].state # "released twice"
    /\ last.op = "end" => Constructed

----------------------------------------------------------------------------
(* C7: once the identity has been resolved, an identity accessor returns    *)
(* the cached values without a call on the bus, until end or begin.         *)
IdentityCached ==
    [][(initialized_ /\ deviceIdSupported_ /\ last'.op \in Accessors)
       => last'.log = <<>>]_vars

----------------------------------------------------------------------------
(* C8: when endTransmission reports a code other than TwiSuccess, the       *)
(* transfer returns I2CBufferOverflowError for 1, I2CAddressNackError for   *)
(* 2, I2CDataNackError for 3, I2CLineBusyError for 4 and                    *)
(* I2CUnknownTwiResultCode for any other code.                              *)
BusResultMapping ==
    (/\ last.op \in Transfers
     /\ last.log # <<>>
     /\ last.log[Len(last.log)].call = "endTransmission"
     /\ last.log[Len(last.log)].ret # TwiSuccess)
    => last.result =
          CASE last.log[Len(last.log)].ret = 1 -> I2CBufferOverflowError
            [] last.log[Len(last.log)].ret = 2 -> I2CAddressNackError
            [] last.log[Len(last.log)].ret = 3 -> I2CDataNackError
            [] last.log[Len(last.log)].ret = 4 -> I2CLineBusyError
            [] OTHER -> I2CUnknownTwiResultCode

----------------------------------------------------------------------------
(* C9: a begin on an empty device state that returns                        *)
(* UnsupportedDensityError or BufferAllocationFailedError leaves the device *)
(* state empty: initialized false and every stored field at its empty       *)
(* value.                                                                   *)
FailedBeginLeavesEmpty ==
    [][(/\ Constructed
        /\ last'.op = "begin"
        /\ last'.result \in {UnsupportedDensityError, BufferAllocationFailedError})
       => Constructed']_vars

----------------------------------------------------------------------------
(* C10: begin on a device that is not initialized returns                   *)
(* UnsupportedDensityError exactly when the density is none of 4, 16, 64,   *)
(* 128, 256, 512, 1024; otherwise BufferAllocationFailedError exactly when  *)
(* the type buffer size exceeds the page size or malloc fails; otherwise    *)
(* Success, and then density, bus address, geometry and type buffer size    *)
(* are stored, initialized is set and the identity cache is cleared.        *)
TablePageSize(density) ==
    IF density \in {4, 16} THEN 256
    ELSE IF density \in {64, 128, 256} THEN density * 128
    ELSE 65536

BeginOutcome ==
    [][(~initialized_ /\ last'.op = "begin") =>
         LET density == last'.arg[1]
             address == last'.arg[2]
             size == last'.arg[3]
             supported == density \in {4, 16, 64, 128, 256, 512, 1024}
             allocated == Len(heap') = Len(heap) + 1
         IN  /\ last'.result = UnsupportedDensityError <=> ~supported
             /\ supported =>
                   /\ last'.result = BufferAllocationFailedError
                         <=> (size > TablePageSize(density) \/ ~allocated)
                   /\ last'.result \in {BufferAllocationFailedError, Success}
             /\ initialized_' <=> last'.result = Success
             /\ last'.result = Success =>
                   /\ density_' = density
                   /\ i2cAddress_' = address
                   /\ memorySize_' = density * 128
                   /\ pageSize_' = TablePageSize(density)
                   /\ pageCount_' = memorySize_' \div pageSize_'
                   /\ addressBytesCount_' = IF pageSize_' = 256 THEN 1 ELSE 2
                   /\ typebufferSize_' = size
                   /\ typebuffer_' = Len(heap')
                   /\ heap'[typebuffer_'].size = size
                   /\ heap'[typebuffer_'].state = "allocated"
                   /\ ~deviceIdChecked_'
                   /\ ~deviceIdSupported_'
                   /\ manufacturerId_' = 0
                   /\ productId_' = 0]_vars

(* A 1 megabit device was initialized after an end: two pages of 65536      *)
(* bytes, a new type buffer, an empty identity cache.                       *)
BeginOutcomeWitness ==
    /\ last.op = "begin"
    /\ last.result = Success
    /\ initialized_
    /\ density_ = 1024
    /\ pageCount_ = 2
    /\ typebuffer_ = 2
    /\ ~deviceIdSupported_

----------------------------------------------------------------------------
(* C11: read<T> and write<T> with sizeof(T) greater than the type buffer    *)
(* size return BufferOverflowError, make no call on the transport and       *)
(* change neither the type buffer, nor the caller's value, nor the device.  *)
Typed == {"read", "write"}

TypedOverflow ==
    [][(/\ calls' # calls
        /\ last'.op \in Typed
        /\ last'.arg[3] > typebufferSize_)
       => /\ last'.result = BufferOverflowError
          /\ last'.log = <<>>
          /\ heap' = heap
          /\ last'.data = last'.arg[4].bytes
          /\ fram' = fram]_vars

(* A 41-byte value was refused by an initialized device whose type buffer   *)
(* holds 40 bytes.                                                          *)
TypedOverflowWitness ==
    /\ last.op = "read"
    /\ initialized_
    /\ typebufferSize_ = 40
    /\ last.arg[3] = 41
    /\ last.result = BufferOverflowError

----------------------------------------------------------------------------
(* C12: read<T> overwrites the caller's value only when readBytes returns   *)
(* Success, and then with the sizeof(T) bytes stored at (page, address);    *)
(* for every other result, a validation error or a bus failure in the first *)
(* or a later chunk, the value is what it was before the call.              *)
TypedReadValue ==
    [][(calls' # calls /\ last'.op = "read")
       => last'.data =
             IF last'.result = Success
             THEN [i \in 1..last'.arg[3] |->
                      cell(fram, U8(i2cAddress_ + last'.arg[1]), last'.arg[2] + i - 1)]
             ELSE last'.arg[4].bytes]_vars

(* A 40-byte read failed in its second transaction: the first 32 bytes had  *)
(* reached the type buffer, the caller's value was not touched.             *)
TypedReadValueWitness ==
    /\ last.op = "read"
    /\ last.arg[3] = 40
    /\ last.result = I2CReadError
    /\ Len(Transactions(last.log, addressBytesCount_)) = 2
    /\ last.data = blank(40)
    /\ SubSeq(heap[typebuffer_].bytes, 1, 32) # SubSeq(Block(40).bytes, 1, 32)

----------------------------------------------------------------------------
(* C13: when a transaction of readBytes, writeBytes or fill fails at the    *)
(* bus (a write queues less than asked, endTransmission reports a code,     *)
(* requestFrom delivers less than asked), the failing transport call is the *)
(* last one the method makes and the method returns an error: I2CWriteError *)
(* for the queue, I2CReadError for the short read, a bus code for           *)
(* endTransmission.  No address is transmitted twice in the call, and       *)
(* exactly the chunks before the failing one have been transferred: they    *)
(* are in the caller's buffer (read) or in the device (write, fill), and    *)
(* nothing of the failing chunk or of the ones after it is.                 *)
Failing(e) ==
    \/ e.call \in {"write", "requestFrom"} /\ e.ret # e.count
    \/ e.call = "endTransmission" /\ e.ret # TwiSuccess

AbortOnBusFailure ==
    [][(/\ calls' # calls
        /\ last'.op \in Transfers
        /\ \E i \in 1..Len(last'.log) : Failing(last'.log[i]))
       => LET log == last'.log
              t == Transactions(log, addressBytesCount_)
              moved == (Len(t) - 1) * ChunkSizeFor(last'.op)
              bus == U8(i2cAddress_ + last'.arg[1])
              address == last'.arg[2]
              given == last'.arg[4].bytes
              new == {<<bus, address + i - 1>> : i \in 1..moved}
          IN  /\ \A i \in 1..(Len(log) - 1) : ~Failing(log[i])
              /\ Failing(log[Len(log)])
              /\ CASE log[Len(log)].call = "write" -> last'.result = I2CWriteError
                   [] log[Len(log)].call = "requestFrom" -> last'.result = I2CReadError
                   [] OTHER -> last'.result \in 1..I2CUnknownTwiResultCode
                                   \ {I2CReadError, I2CWriteError}
              /\ \A j, k \in 1..Len(t) : j # k => t[j].address # t[k].address
              /\ IF last'.op = "readBytes"
                 THEN /\ fram' = fram
                      /\ last'.data =
                            [i \in 1..Len(given) |->
                               IF i <= moved THEN cell(fram, bus, address + i - 1)
                               ELSE given[i]]
                 ELSE /\ DOMAIN fram' = DOMAIN fram \cup new
                      /\ \A c \in DOMAIN fram' :
                            fram'[c] =
                               IF c \in new
                               THEN (IF last'.op = "fill" THEN given[1]
                                     ELSE given[c[2] - address + 1])
                               ELSE fram[c]]_vars

(* A writeBytes of 70 bytes was refused by the bus in its second            *)
(* transaction: two transactions went out, the first chunk is in the        *)
(* device, the rest is not.                                                 *)
AbortOnBusFailureWitness ==
    /\ last.op = "writeBytes"
    /\ last.arg[3] = 70
    /\ last.result = I2CAddressNackError
    /\ Len(Transactions(last.log, addressBytesCount_)) = 2
    /\ <<U8(i2cAddress_), 100>> \in DOMAIN fram
    /\ <<U8(i2cAddress_), 100 + ChunkSizeFor("writeBytes")>> \notin DOMAIN fram

----------------------------------------------------------------------------
(* C14: an initialized device of capacity c kilobit has memorySize = c*128; *)
(* pageSize = 256 for c in {4, 16}, memorySize for c in {64, 128, 256} and  *)
(* 65536 for c in {512, 1024}; one address byte exactly when pageSize is    *)
(* 256, else two; pageCount = memorySize / pageSize; and                    *)
(* pageSize * pageCount = memorySize.  For c = 64: 8192 bytes, one page of  *)
(* 8192, two address bytes.                                                 *)
GeometryTable ==
    initialized_ =>
        /\ density_ \in {4, 16, 64, 128, 256, 512, 1024}
        /\ memorySize_ = density_ * 128
        /\ density_ \in {4, 16} => pageSize_ = 256
        /\ density_ \in {64, 128, 256} => pageSize_ = memorySize_
        /\ density_ \in {512, 1024} => pageSize_ = 65536
        /\ addressBytesCount_ = 1 <=> pageSize_ = 256
        /\ addressBytesCount_ \in {1, 2}
        /\ pageCount_ = memorySize_ \div pageSize_
        /\ pageSize_ * pageCount_ = memorySize_
        /\ density_ = 64 =>
              <<memorySize_, pageSize_, pageCount_, addressBytesCount_>> = <<8192, 8192, 1, 2>>

(* A 64 kilobit device was initialized. *)
GeometryTableWitness ==
    /\ last.op = "begin"
    /\ last.result = Success
    /\ initialized_
    /\ density_ = 64
    /\ pageSize_ = 8192

----------------------------------------------------------------------------
(* C15: an identification query that receives three bytes b0 b1 b2 leaves   *)
(* manufacturerId = (b0 << 4) | (b1 >> 4) and                               *)
(* productId = ((b1 & 0x0F) << 8) | b2, and the accessors return them; the  *)
(* bytes 0x04 0x08 0x42 give manufacturerId 0x040 and productId 0x842.      *)
IdQueryAnswered ==
    /\ last.op \in Accessors
    /\ last.log # <<>>
    /\ last.log[Len(last.log)].call = "readBytes"
    /\ last.log[Len(last.log)].ret = 3

IdBitSlicing ==
    IdQueryAnswered =>
        LET b == last.log[Len(last.log)].bytes
        IN  /\ manufacturerId_ = (b[1] * 16) + (b[2] \div 16)
            /\ productId_ = ((b[2] % 16) * 256) + b[3]
            /\ last.op = "manufacturerId" => last.value = manufacturerId_
            /\ last.op = "productId" => last.value = productId_
            /\ b = <<4, 8, 66>> => manufacturerId_ = 64 /\ productId_ = 2114

(* C15 as stated: the bytes 0x04 0x08 0x42 give manufacturerId 0x048 and    *)
(* productId 0x842.                                                         *)
IdBitSlicingAsStated ==
    (IdQueryAnswered /\ last.log[Len(last.log)].bytes = <<4, 8, 66>>)
    => manufacturerId_ = 72 /\ productId_ = 2114

(* productId() ran the query and received 0x04 0x08 0x42. *)
IdBitSlicingWitness ==
    /\ IdQueryAnswered
    /\ last.op = "productId"
    /\ last.log[Len(last.log)].bytes = <<4, 8, 66>>
    /\ last.value = 2114
    /\ manufacturerId_ = 64

----------------------------------------------------------------------------
(* C16: on an initialized device, a readBytes or writeBytes without a       *)
(* buffer, of length 0, with page < pageCount and address < pageSize, is    *)
(* not refused with NullPtrError: it returns Success and makes no           *)
(* transaction.                                                             *)
NullNeedsLength ==
    (/\ last.op \in {"readBytes", "writeBytes"}
     /\ initialized_
     /\ last.arg[4].null
     /\ last.arg[3] = 0
     /\ last.arg[1] < pageCount_
     /\ last.arg[2] < pageSize_)
    => /\ last.result # NullPtrError
       /\ last.result = Success
       /\ last.log = <<>>

----------------------------------------------------------------------------
(* C17: in writeBytes and fill the bytes queued into one transaction,       *)
(* address bytes and data bytes together, are at most 32, that is at most   *)
(* 31 data bytes with one address byte and 30 with two; in readBytes every  *)
(* requestFrom asks for at most 32 bytes; and every chunk has at least one  *)
(* byte.                                                                    *)
ChunkBound ==
    last.op \in Transfers =>
        \A k \in 1..Len(Transactions(last.log, addressBytesCount_)) :
            LET t == Transactions(last.log, addressBytesCount_)[k]
            IN  /\ t.length >= 1
                /\ IF last.op = "readBytes"
                   THEN t.length <= 32
                   ELSE /\ addressBytesCount_ + t.length <= 32
                        /\ t.length <= (IF addressBytesCount_ = 1 THEN 31 ELSE 30)

(* 70 bytes were written to a device with two address bytes in transactions *)
(* of 30, 30 and 10 data bytes.                                             *)
ChunkBoundWitness ==
    /\ last.op = "writeBytes"
    /\ addressBytesCount_ = 2
    /\ Len(Transactions(last.log, 2)) = 3
    /\ [k \in 1..3 |-> Transactions(last.log, 2)[k].length] = <<30, 30, 10>>

----------------------------------------------------------------------------
(* C18: a readBytes or writeBytes that breaks one or more validation rules  *)
(* returns the error of the first rule broken in the order                  *)
(* NotInitializedError, InvalidPageError, PageSizeRangeError, NullPtrError  *)
(* (the last for an absent buffer with length > 0): an absent buffer with   *)
(* page >= pageCount returns InvalidPageError, an absent buffer with an     *)
(* address out of range returns PageSizeRangeError.                         *)
FirstRuleBroken(page, address, length, data) ==
    IF ~initialized_ THEN NotInitializedError
    ELSE IF page >= pageCount_ THEN InvalidPageError
    ELSE IF address >= pageSize_ \/ address + length > pageSize_ THEN PageSizeRangeError
    ELSE IF data.null /\ length > 0 THEN NullPtrError
    ELSE Success

ValidationPrecedence ==
    (/\ last.op \in {"readBytes", "writeBytes"}
     /\ FirstRuleBroken(last.arg[1], last.arg[2], last.arg[3], last.arg[4]) # Success)
    => last.result = FirstRuleBroken(last.arg[1], last.arg[2], last.arg[3], last.arg[4])

----------------------------------------------------------------------------
(* C19: with a transport that answers every call, a readBytes, writeBytes   *)
(* or fill that has entered its loop returns.  Every completed iteration    *)
(* takes the remaining count down by the chunk size, which is at least 1    *)
(* and at most the count, so the count never passes below zero; the number  *)
(* of iterations never exceeds ceil(length / chunkSize); and the return     *)
(* after the loop, Success, comes after exactly that many, none for         *)
(* length 0.                                                                *)
LoopTerminates ==
    /\ [][(loop # Idle /\ loop' # loop) =>
             LET remaining == loop.s.totalBytesRemaining
                 most == Ceil(loop.arg[3], ChunkSizeFor(loop.op))
             IN  IF loop' # Idle
                 THEN /\ loop'.s.totalBytesRemaining
                            = remaining - Min(ChunkSizeFor(loop.op), remaining)
                      /\ loop'.s.totalBytesRemaining < remaining
                      /\ loop'.s.totalBytesRemaining >= 0
                      /\ loop'.s.k = loop.s.k + 1
                      /\ loop'.s.k <= most
                 ELSE /\ last'.op = loop.op
                      /\ last'.arg = loop.arg
                      /\ loop.s.k <= most
                      /\ last'.result = Success <=> remaining = 0
                      /\ last'.result = Success => loop.s.k = most]_vars
    /\ (loop # Idle) ~> (loop = Idle)

(* A fill of 70 bytes has run its third and last iteration and is about to  *)
(* return.                                                                  *)
LoopTerminatesWitness ==
    /\ loop # Idle
    /\ loop.op = "fill"
    /\ loop.arg[3] = 70
    /\ loop.s.k = 3
    /\ loop.s.totalBytesRemaining = 0

----------------------------------------------------------------------------
(* C20: every transaction of readBytes, writeBytes and fill is opened at    *)
(* bus address i2cAddress + page and first queues the in-page start address *)
(* of its chunk, address + k * chunkSize for transaction k = 0, 1, ..., in  *)
(* exactly addressByteWidth writes of one byte: the high byte then the low  *)
(* byte for width 2, the low byte alone for width 1.  That address is below *)
(* pageSize and is not reduced modulo 65536, also on 65536-byte pages.      *)
OpenedAt(log, n) ==
    CHOOSE i \in 1..Len(log) :
        /\ log[i].call = "beginTransmission"
        /\ Cardinality({j \in 1..i : log[j].call = "beginTransmission"}) = n

Framing ==
    last.op \in Transfers =>
        \A n \in 1..Cardinality({j \in 1..Len(last.log) :
                                    last.log[j].call = "beginTransmission"}) :
            LET i == OpenedAt(last.log, n)
                start == last.arg[2] + (n - 1) * ChunkSizeFor(last.op)
            IN  /\ last.log[i].addr = i2cAddress_ + last.arg[1]
                /\ start < pageSize_
                /\ Len(last.log) >= i + addressBytesCount_
                /\ \A j \in 1..addressBytesCount_ : last.log[i + j].call = "write"
                /\ IF addressBytesCount_ = 2
                   THEN /\ last.log[i + 1].bytes = <<start \div 256>>
                        /\ last.log[i + 2].bytes = <<start % 256>>
                   ELSE /\ addressBytesCount_ = 1
                        /\ last.log[i + 1].bytes = <<start>>
                /\ Len(last.log) > i + addressBytesCount_ =>
                      ~(/\ last.log[i + addressBytesCount_ + 1].call = "write"
                        /\ last.op = "readBytes")

(* 36 bytes were read from address 65500 of page 1 of a 1 megabit device:   *)
(* the second transaction went to bus address 81 with address bytes 0xFF    *)
(* 0xFC, 65500 + 32.                                                        *)
FramingWitness ==
    /\ last.op = "readBytes"
    /\ density_ = 1024
    /\ <<last.arg[1], last.arg[2], last.arg[3]>> = <<1, 65500, 36>>
    /\ last.result = Success
    /\ LET i == OpenedAt(last.log, 2)
       IN  /\ last.log[i].addr = 81
           /\ last.log[i + 1].bytes = <<255>>
           /\ last.log[i + 2].bytes = <<252>>

----------------------------------------------------------------------------
(* C21: every data byte queued in every transaction of a fill is the value  *)
(* the caller gave, and after a fill(page, address, length, value) that     *)
(* returned Success a readBytes of the same range over a transport without  *)
(* faults returns Success and length bytes all equal to value.              *)
DataQueued(log, n, width) ==
    LET i == OpenedAt(log, n)
        seg == SubSeq(log, i + 1, segmentEnd(log, i))
        sent == sentBytes(SelectSeq(seg, LAMBDA e : e.call = "write"))
    IN  SubSeq(sent, width + 1, Len(sent))

FillSynthesized ==
    /\ last.op = "fill" =>
          \A n \in 1..Len(Transactions(last.log, addressBytesCount_)) :
              LET queued == DataQueued(last.log, n, addressBytesCount_)
              IN  /\ Len(queued) = Transactions(last.log, addressBytesCount_)[n].length
                  /\ \A j \in 1..Len(queued) : queued[j] = last.arg[4].bytes[1]
    /\ (/\ ValidRequest
        /\ last.op = "readBytes"
        /\ prev.op = "fill"
        /\ <<prev.arg[1], prev.arg[2], prev.arg[3]>> = <<last.arg[1], last.arg[2], last.arg[3]>>)
       => /\ last.result = Success
          /\ Len(last.data) = last.arg[3]
          /\ \A i \in 1..Len(last.data) : last.data[i] = prev.arg[4].bytes[1]

(* 70 bytes filled with 0xAA in three transactions were read back in three  *)
(* transactions into a buffer that held other bytes.                        *)
FillSynthesizedWitness ==
    /\ ValidRequest
    /\ last.op = "readBytes"
    /\ prev.op = "fill"
    /\ <<prev.arg[1], prev.arg[2], prev.arg[3]>> = <<0, 100, 70>>
    /\ <<last.arg[1], last.arg[2], last.arg[3]>> = <<0, 100, 70>>
    /\ Len(Transactions(prev.log, addressBytesCount_)) = 3
    /\ last.arg[4].bytes = blank(70)
    /\ last.data = [i \in 1..70 |-> 170]

----------------------------------------------------------------------------
(* C22: an identification query makes its transport calls in this order:    *)
(* it opens a transaction at the reserved address 0x7C, never at the        *)
(* configured bus address; queues exactly one byte, (busAddress << 1) mod   *)
(* 256; closes the write phase without a stop; then requests exactly 3      *)
(* bytes with a stop.  The request is made only if the write queued 1 byte  *)
(* and the close reported TwiSuccess, and it is made whenever they did.     *)
IdProtocolOrder ==
    (last.op \in Accessors /\ last.log # <<>>) =>
        LET log == last.log
        IN  /\ Len(log) \in 2..5
            /\ \A i \in 1..Len(log) : log[i].addr = ReservedSlaveAddress
            /\ log[1].call = "beginTransmission"
            /\ log[2].call = "write"
            /\ log[2].count = 1
            /\ log[2].bytes = <<(i2cAddress_ * 2) % 256>>
            /\ Len(log) >= 3 =>
                  /\ log[3].call = "endTransmission"
                  /\ ~log[3].stop
                  /\ log[2].ret = 1
            /\ Len(log) >= 4 =>
                  /\ log[4].call = "requestFrom"
                  /\ log[4].count = 3
                  /\ log[4].stop
                  /\ log[3].ret = TwiSuccess
            /\ Len(log) = 5 => log[5].call = "readBytes" /\ log[4].ret = 3
            /\ (Len(log) >= 3 /\ log[3].ret = TwiSuccess) => Len(log) >= 4

(* A device at bus address 0xD0 was asked for its identity and answered:    *)
(* the framing byte was 0xA0 and all four steps were made.                  *)
IdProtocolOrderWitness ==
    /\ last.op \in Accessors
    /\ initialized_
    /\ i2cAddress_ = 208
    /\ Len(last.log) = 5
    /\ last.log[2].bytes = <<160>>
    /\ last.log[4].call = "requestFrom"
    /\ last.flag

----------------------------------------------------------------------------
(* C23: whenever an identification query fails (nothing queued, a bus code  *)
(* at the close, a short request or a short copy), the device id is         *)
(* reported as not supported, isDeviceIdSupported returns false, and        *)
(* manufacturerId and productId are not set from that query; this holds for *)
(* every query, one made after an earlier query succeeded included.         *)
IdQueryFailed(c) ==
    /\ c.op \in Accessors
    /\ c.log # <<>>
    /\ ~(/\ c.log[Len(c.log)].call = "readBytes"
         /\ c.log[Len(c.log)].ret = DeviceIdSize)

FailedIdUnsupported ==
    [][IdQueryFailed(last') =>
          /\ ~deviceIdSupported_'
          /\ last'.op = "isDeviceIdSupported" => ~last'.flag
          /\ manufacturerId_' = manufacturerId_
          /\ productId_' = productId_]_vars

----------------------------------------------------------------------------
(* C24: after begin(p1) succeeded and end ran, a begin(p2) with a supported *)
(* density and a type buffer size within the page size never returns        *)
(* AllreadyInitializedError; it returns Success whenever malloc answers,    *)
(* and then the stored configuration is the geometry of p2, a new block of  *)
(* p2's size is the type buffer, and the identity cache is empty, so that   *)
(* the next identity accessor queries the bus.                              *)
TornDown ==
    /\ last.op = "end"
    /\ typebuffer_ # 0
    /\ heap[typebuffer_].state = "released"

ReinitAfterEnd ==
    /\ [][(/\ TornDown
           /\ last'.op = "begin"
           /\ last'.arg[1] \in {4, 16, 64, 128, 256, 512, 1024}
           /\ last'.arg[3] <= TablePageSize(last'.arg[1]))
          => /\ last'.result # AllreadyInitializedError
             /\ last'.result = Success <=> Len(heap') = Len(heap) + 1
             /\ last'.result = Success =>
                   /\ initialized_'
                   /\ density_' = last'.arg[1]
                   /\ i2cAddress_' = last'.arg[2]
                   /\ typebufferSize_' = last'.arg[3]
                   /\ memorySize_' = last'.arg[1] * 128
                   /\ pageSize_' = TablePageSize(last'.arg[1])
                   /\ pageCount_' = memorySize_' \div pageSize_'
                   /\ addressBytesCount_' = IF pageSize_' = 256 THEN 1 ELSE 2
                   /\ typebuffer_' # typebuffer_
                   /\ typebuffer_' = Len(heap')
                   /\ heap'[typebuffer_'].size = last'.arg[3]
                   /\ heap'[typebuffer_'].state = "allocated"
                   /\ heap'[typebuffer_] = heap[typebuffer_]
                   /\ ~deviceIdChecked_'
                   /\ ~deviceIdSupported_'
                   /\ manufacturerId_' = 0
                   /\ productId_' = 0]_vars
    /\ [][(/\ last.op = "begin"
           /\ last.result = Success
           /\ typebuffer_ > 1
           /\ last'.op \in Accessors)
          => last'.log # <<>>]_vars

(* A device initialized as 4 kilobit at 0x50 with a 10-byte type buffer was *)
(* torn down and initialized again as 1 megabit at 0x51 with a 257-byte     *)
(* type buffer.                                                             *)
ReinitAfterEndWitness ==
    /\ last.op = "begin"
    /\ last.arg = <<1024, 81, 257>>
    /\ last.result = Success
    /\ Len(heap) = 2
    /\ heap[1].size = 10
    /\ heap[1].state = "released"
    /\ heap[2].size = 257
    /\ heap[2].state = "allocated"
    /\ typebuffer_ = 2
    /\ pageSize_ = 65536
    /\ ~deviceIdSupported_

----------------------------------------------------------------------------
(* C25: while the device is not initialized (never initialized, after a     *)
(* failed begin, after end) no call of readBytes, writeBytes, fill,         *)
(* read<T>, write<T>, isDeviceIdSupported, manufacturerId or productId      *)
(* makes a call on the bus.                                                 *)
QuietUntilInitialized ==
    [][(/\ ~initialized_
        /\ last' # last
        /\ last'.op \in Transfers \cup Typed \cup Accessors)
       => last'.log = <<>>]_vars

----------------------------------------------------------------------------
(* C26: in every readBytes, writeBytes, fill and identification query each  *)
(* transaction opened with beginTransmission is closed with endTransmission *)
(* before the method returns and before the next transaction is opened, on  *)
(* the path where fewer bytes were queued than asked included.              *)
Bracketed(log) ==
    \A i \in 1..Len(log) :
        log[i].call = "beginTransmission" =>
            \E j \in (i + 1)..segmentEnd(log, i) : log[j].call = "endTransmission"

TransactionsClosed ==
    last.op \in Transfers \cup Accessors => Bracketed(last.log)

----------------------------------------------------------------------------
(* C27: on an initialized device the bus address of every page,             *)
(* busAddress + page for page < pageCount, is a 7-bit address: begin        *)
(* accepts no busAddress with busAddress + (pageCount - 1) > 0x7F, and      *)
(* every transaction of an accepted request is opened at busAddress + page, *)
(* which is at most 0x7F and has not wrapped in 8 bits.                     *)
BusAddress7Bit ==
    /\ initialized_ => i2cAddress_ + (pageCount_ - 1) <= 127
    /\ (last.op \in Transfers /\ initialized_) =>
          \A i \in 1..Len(last.log) :
              /\ last.log[i].addr = i2cAddress_ + last.arg[1]
              /\ last.log[i].addr <= 127

----------------------------------------------------------------------------
(* C28: over every sequence of begin, end, read<T> and write<T> the type    *)
(* buffer is read or written only while it is allocated and only within     *)
(* its capacity.  A stored type buffer size above 0 goes with an allocated  *)
(* block of that size; read<T> and write<T> on a device that is not         *)
(* initialized (never initialized, begin failed, torn down) return          *)
(* BufferOverflowError without a call on the bus and without touching any   *)
(* block; every typed call that gets past the size test works on an         *)
(* allocated block at least sizeof(T) long; and the only block a typed call *)
(* changes is that one, which keeps its length.                             *)
ScratchSafe ==
    /\ [](typebufferSize_ # 0 =>
             /\ initialized_
             /\ typebuffer_ # 0
             /\ heap[typebuffer_].state = "allocated"
             /\ heap[typebuffer_].size = typebufferSize_
             /\ Len(heap[typebuffer_].bytes) = typebufferSize_)
    /\ [][(calls' # calls /\ last'.op \in Typed) =>
             /\ ~initialized_ =>
                   /\ last'.result = BufferOverflowError
                   /\ last'.log = <<>>
                   /\ heap' = heap
             /\ last'.result # BufferOverflowError =>
                   /\ typebuffer_ # 0
                   /\ heap[typebuffer_].state = "allocated"
                   /\ last'.arg[3] <= heap[typebuffer_].size
             /\ \A b \in 1..Len(heap) :
                   heap'[b] # heap[b] =>
                       /\ b = typebuffer_
                       /\ heap[b].state = "allocated"
                       /\ heap'[b].state = "allocated"
                       /\ heap'[b].size = heap[b].size
                       /\ Len(heap'[b].bytes) = heap[b].size
             /\ Len(heap') = Len(heap)]_vars

(* write<T> of a 4-byte value on a torn-down device, whose pointer still    *)
(* names the released block, was refused.                                   *)
ScratchSafeWitness ==
    /\ last.op = "write"
    /\ last.arg[3] = 4
    /\ last.result = BufferOverflowError
    /\ ~initialized_
    /\ typebuffer_ # 0
    /\ heap[typebuffer_].state = "released"
    /\ heap[typebuffer_].bytes # Block(TypeBufferSize).bytes

====
